---- MODULE Spec2Model ----
(***************************************************************************)
(* Proof-of-existence pallet (pallets/poe/src/lib.rs): the storage map     *)
(* Proofs, the three dispatchables create_claim, revoke_claim and          *)
(* transfer_claim, the events they deposit and the errors they return.     *)
(* The host (FRAME) supplies the origin of each call and the block number. *)
(***************************************************************************)
EXTENDS Integers, Sequences, FiniteSets, TLC

\* ---------------------------------------------------------------- bounds
\* Highest block number the clock reaches in the model.
MaxBlock == 1
\* Number of events the recorded event log can hold; calls stop when full.
MaxEvents == 3

\* ------------------------------------------------------- configuration
\* Config::ProofLimit (a Get<u32>); the runtime of the spec's scenario sets 10.
ProofLimit == 10

\* ------------------------------------------------------------- inputs
\* T::AccountId: the identities that sign calls and own claims.
AccountId == {"A", "B", "C"}

\* The origin of a call: Signed(who) is modelled by who itself; "Root" is an
\* origin that is not signed.
Root == "Root"
Origins == AccountId \cup {Root}

\* Vec<u8> of n bytes, all equal to b.
Fill(n, b) == [i \in 1..n |-> b]

\* The proofs (Vec<u8>) submitted in the model: the empty one, one of exactly
\* ProofLimit bytes and one of ProofLimit + 1 bytes.
Fingerprints == { <<>>, Fill(ProofLimit, 97), Fill(ProofLimit + 1, 98) }

\* T::BlockNumber values of the model.
BlockNumber == 0..MaxBlock

\* ------------------------------------------------------------- state
VARIABLES
    proofs,        \* Proofs: StorageMap Vec<u8> -> (AccountId, BlockNumber)
    events,        \* the events handed to deposit_event so far, oldest first
    block_number,  \* frame_system::Pallet::<T>::block_number()
    call,          \* the last dispatched call: <<name, origin, proof[, dest]>>,
                   \* <<"none">> before the first one
    result,        \* the DispatchResult of the last dispatched call
    before         \* Proofs as it was when the last call was dispatched

vars == <<proofs, events, block_number, call, result, before>>

\* ------------------------------------------------------- DispatchResult
Ok == "Ok"
BadOrigin == "BadOrigin"
ProofAlreadyExist == "ProofAlreadyExist"
ProofIsTooLong == "ProofIsTooLong"
ClaimNotExist == "ClaimNotExist"
NotProofOwner == "NotProofOwner"
Errors == {BadOrigin, ProofAlreadyExist, ProofIsTooLong, ClaimNotExist, NotProofOwner}

\* ----------------------------------------------------------- Event<T>
ClaimCreated(who, claim) == <<"ClaimCreated", who, claim>>
ClaimRevoked(who, claim) == <<"ClaimRevoked", who, claim>>
ClaimTransfered(who, claim, dest) == <<"ClaimTransfered", who, claim, dest>>

\* deposit_event: the event is appended to the recorded events.
deposit_event(log, event) == Append(log, event)

\* ------------------------------------------------------- StorageMap API
contains_key(map, key) == key \in DOMAIN map
\* Option<(AccountId, BlockNumber)>: None is {}, Some(v) is {v}.
get(map, key) == IF key \in DOMAIN map THEN {map[key]} ELSE {}
\* An insert that keeps the value of a key that is present.
insert_keeps_present(map, key, value) ==
    [k \in (DOMAIN map) \cup {key} |-> IF k \in DOMAIN map THEN map[k] ELSE value]

insert(map, key, value) ==
    [k \in (DOMAIN map) \cup {key} |-> IF k = key THEN value ELSE map[k]]
\* A remove that clears the whole map.
remove_clears(map, key) == [k \in {} |-> map[k]]

\* A remove that leaves the entry in place.
remove_keeps(map, key) == map

remove(map, key) == [k \in (DOMAIN map) \ {key} |-> map[k]]

\* The value inside Some(v).
unwrap(opt) == CHOOSE v \in opt : TRUE

\* ensure_signed(origin): Ok(who) for a signed origin, Err(BadOrigin) otherwise.
ensure_signed(origin) == origin \in AccountId

\* Off by one: one byte more than ProofLimit is accepted.
WithinProofLimit_plus_one(proof) == Len(proof) <= ProofLimit + 1

\* Strict comparison: a proof of exactly ProofLimit bytes is refused.
WithinProofLimit_strict(proof) == Len(proof) < ProofLimit

\* proof.len() <= T::ProofLimit::get()
WithinProofLimit(proof) == Len(proof) <= ProofLimit

\* Return Err(e), by ensure! or by ?: nothing was written, nothing deposited.
Fail(c, e) ==
    /\ call' = c
    /\ result' = e
    /\ before' = proofs
    /\ UNCHANGED <<proofs, events, block_number>>

\* Write newProofs to Proofs, deposit the event, return Ok(()).
Succeed(c, newProofs, event) ==
    /\ call' = c
    /\ result' = Ok
    /\ before' = proofs
    /\ proofs' = newProofs
    /\ events' = deposit_event(events, event)
    /\ UNCHANGED block_number

\* ------------------------------------------------------- dispatchables
\* create_claim without the contains_key check: a present claim is overwritten.
create_claim_overwrite(origin, proof) ==
    LET c == <<"create_claim", origin, proof>> IN
    /\ Len(events) < MaxEvents
    /\ IF ~ensure_signed(origin) THEN Fail(c, BadOrigin)
       ELSE IF ~WithinProofLimit(proof) THEN Fail(c, ProofIsTooLong)
       ELSE Succeed(c, insert(proofs, proof, <<origin, block_number>>),
                    ClaimCreated(origin, proof))

\* create_claim without the length check.
create_claim_no_limit(origin, proof) ==
    LET c == <<"create_claim", origin, proof>> IN
    /\ Len(events) < MaxEvents
    /\ IF ~ensure_signed(origin) THEN Fail(c, BadOrigin)
       ELSE IF contains_key(proofs, proof) THEN Fail(c, ProofAlreadyExist)
       ELSE Succeed(c, insert(proofs, proof, <<origin, block_number>>),
                    ClaimCreated(origin, proof))

create_claim(origin, proof) ==
    LET c == <<"create_claim", origin, proof>> IN
    /\ Len(events) < MaxEvents
    /\ IF ~ensure_signed(origin) THEN Fail(c, BadOrigin)
       ELSE IF ~WithinProofLimit(proof) THEN Fail(c, ProofIsTooLong)
       ELSE IF contains_key(proofs, proof) THEN Fail(c, ProofAlreadyExist)
       ELSE Succeed(c, insert(proofs, proof, <<origin, block_number>>),
                    ClaimCreated(origin, proof))

\* revoke_claim that reports a missing claim as NotProofOwner.
revoke_claim_wrong_error(origin, proof) ==
    LET c == <<"revoke_claim", origin, proof>>
        found == get(proofs, proof)
    IN
    /\ Len(events) < MaxEvents
    /\ IF ~ensure_signed(origin) THEN Fail(c, BadOrigin)
       ELSE IF found = {} THEN Fail(c, NotProofOwner)
       ELSE IF origin # unwrap(found)[1] THEN Fail(c, NotProofOwner)
       ELSE Succeed(c, remove(proofs, proof), ClaimRevoked(origin, proof))

\* revoke_claim without the owner check: anyone may revoke.
revoke_claim_any_sender(origin, proof) ==
    LET c == <<"revoke_claim", origin, proof>>
        found == get(proofs, proof)
    IN
    /\ Len(events) < MaxEvents
    /\ IF ~ensure_signed(origin) THEN Fail(c, BadOrigin)
       ELSE IF found = {} THEN Fail(c, ClaimNotExist)
       ELSE Succeed(c, remove(proofs, proof), ClaimRevoked(origin, proof))

revoke_claim(origin, proof) ==
    LET c == <<"revoke_claim", origin, proof>>
        found == get(proofs, proof)
    IN
    /\ Len(events) < MaxEvents
    /\ IF ~ensure_signed(origin) THEN Fail(c, BadOrigin)
       ELSE IF found = {} THEN Fail(c, ClaimNotExist)
       ELSE IF origin # unwrap(found)[1] THEN Fail(c, NotProofOwner)
       ELSE Succeed(c, remove(proofs, proof), ClaimRevoked(origin, proof))

\* transfer_claim without the owner check: anyone may transfer.
transfer_claim_any_sender(origin, proof, dest) ==
    LET c == <<"transfer_claim", origin, proof, dest>>
        found == get(proofs, proof)
    IN
    /\ Len(events) < MaxEvents
    /\ IF ~ensure_signed(origin) THEN Fail(c, BadOrigin)
       ELSE IF ~contains_key(proofs, proof) THEN Fail(c, ClaimNotExist)
       ELSE IF found = {} THEN Fail(c, ClaimNotExist)
       ELSE Succeed(c, insert(proofs, proof, <<dest, block_number>>),
                    ClaimTransfered(origin, proof, dest))

\* transfer_claim that stores the sender instead of dest.
transfer_claim_stores_sender(origin, proof, dest) ==
    LET c == <<"transfer_claim", origin, proof, dest>>
        found == get(proofs, proof)
    IN
    /\ Len(events) < MaxEvents
    /\ IF ~ensure_signed(origin) THEN Fail(c, BadOrigin)
       ELSE IF ~contains_key(proofs, proof) THEN Fail(c, ClaimNotExist)
       ELSE IF found = {} THEN Fail(c, ClaimNotExist)
       ELSE IF origin # unwrap(found)[1] THEN Fail(c, NotProofOwner)
       ELSE Succeed(c, insert(proofs, proof, <<origin, block_number>>),
                    ClaimTransfered(origin, proof, dest))

\* transfer_claim that writes the new record before it checks the owner: the
\* call of another identity returns NotProofOwner with the record replaced.
transfer_claim_writes_first(origin, proof, dest) ==
    LET c == <<"transfer_claim", origin, proof, dest>>
        found == get(proofs, proof)
    IN
    /\ Len(events) < MaxEvents
    /\ IF ~ensure_signed(origin) THEN Fail(c, BadOrigin)
       ELSE IF ~contains_key(proofs, proof) THEN Fail(c, ClaimNotExist)
       ELSE IF found = {} THEN Fail(c, ClaimNotExist)
       ELSE IF origin # unwrap(found)[1]
            THEN /\ call' = c
                 /\ result' = NotProofOwner
                 /\ before' = proofs
                 /\ proofs' = insert(proofs, proof, <<dest, block_number>>)
                 /\ UNCHANGED <<events, block_number>>
       ELSE Succeed(c, insert(proofs, proof, <<dest, block_number>>),
                    ClaimTransfered(origin, proof, dest))

\* transfer_claim without the checks that the claim exists: a transfer of an
\* absent proof stores a record for it.
transfer_claim_upsert(origin, proof, dest) ==
    LET c == <<"transfer_claim", origin, proof, dest>>
        found == get(proofs, proof)
    IN
    /\ Len(events) < MaxEvents
    /\ IF ~ensure_signed(origin) THEN Fail(c, BadOrigin)
       ELSE IF found # {} /\ origin # unwrap(found)[1] THEN Fail(c, NotProofOwner)
       ELSE Succeed(c, insert(proofs, proof, <<dest, block_number>>),
                    ClaimTransfered(origin, proof, dest))

\* transfer_claim with the owner check inverted: only identities that do not
\* own the claim may transfer it.
transfer_claim_inverted_check(origin, proof, dest) ==
    LET c == <<"transfer_claim", origin, proof, dest>>
        found == get(proofs, proof)
    IN
    /\ Len(events) < MaxEvents
    /\ IF ~ensure_signed(origin) THEN Fail(c, BadOrigin)
       ELSE IF ~contains_key(proofs, proof) THEN Fail(c, ClaimNotExist)
       ELSE IF found = {} THEN Fail(c, ClaimNotExist)
       ELSE IF origin = unwrap(found)[1] THEN Fail(c, NotProofOwner)
       ELSE Succeed(c, insert(proofs, proof, <<dest, block_number>>),
                    ClaimTransfered(origin, proof, dest))

\* transfer_claim that deposits the event with sender and dest swapped.
transfer_claim_event_swapped(origin, proof, dest) ==
    LET c == <<"transfer_claim", origin, proof, dest>>
        found == get(proofs, proof)
    IN
    /\ Len(events) < MaxEvents
    /\ IF ~ensure_signed(origin) THEN Fail(c, BadOrigin)
       ELSE IF ~contains_key(proofs, proof) THEN Fail(c, ClaimNotExist)
       ELSE IF found = {} THEN Fail(c, ClaimNotExist)
       ELSE IF origin # unwrap(found)[1] THEN Fail(c, NotProofOwner)
       ELSE Succeed(c, insert(proofs, proof, <<dest, block_number>>),
                    ClaimTransfered(dest, proof, origin))

\* transfer_claim that keeps the block number of the record it replaces.
transfer_claim_keeps_block(origin, proof, dest) ==
    LET c == <<"transfer_claim", origin, proof, dest>>
        found == get(proofs, proof)
    IN
    /\ Len(events) < MaxEvents
    /\ IF ~ensure_signed(origin) THEN Fail(c, BadOrigin)
       ELSE IF ~contains_key(proofs, proof) THEN Fail(c, ClaimNotExist)
       ELSE IF found = {} THEN Fail(c, ClaimNotExist)
       ELSE IF origin # unwrap(found)[1] THEN Fail(c, NotProofOwner)
       ELSE Succeed(c, insert(proofs, proof, <<dest, unwrap(found)[2]>>),
                    ClaimTransfered(origin, proof, dest))

\* transfer_claim that refuses a transfer to the sender itself.
transfer_claim_no_self(origin, proof, dest) ==
    LET c == <<"transfer_claim", origin, proof, dest>>
        found == get(proofs, proof)
    IN
    /\ Len(events) < MaxEvents
    /\ IF ~ensure_signed(origin) THEN Fail(c, BadOrigin)
       ELSE IF ~contains_key(proofs, proof) THEN Fail(c, ClaimNotExist)
       ELSE IF found = {} THEN Fail(c, ClaimNotExist)
       ELSE IF origin # unwrap(found)[1] THEN Fail(c, NotProofOwner)
       ELSE IF dest = origin THEN Fail(c, NotProofOwner)
       ELSE Succeed(c, insert(proofs, proof, <<dest, block_number>>),
                    ClaimTransfered(origin, proof, dest))

transfer_claim(origin, proof, dest) ==
    LET c == <<"transfer_claim", origin, proof, dest>>
        found == get(proofs, proof)
    IN
    /\ Len(events) < MaxEvents
    /\ IF ~ensure_signed(origin) THEN Fail(c, BadOrigin)
       ELSE IF ~contains_key(proofs, proof) THEN Fail(c, ClaimNotExist)
       ELSE IF found = {} THEN Fail(c, ClaimNotExist)
       ELSE IF origin # unwrap(found)[1] THEN Fail(c, NotProofOwner)
       ELSE Succeed(c, insert(proofs, proof, <<dest, block_number>>),
                    ClaimTransfered(origin, proof, dest))

\* The host starts the next block: the block number grows by one.
next_block ==
    /\ block_number < MaxBlock
    /\ block_number' = block_number + 1
    /\ UNCHANGED <<proofs, events, call, result, before>>

\* ------------------------------------------------------- specification
Init ==
    /\ proofs = <<>>
    /\ events = <<>>
    /\ block_number = 0
    /\ call = <<"none">>
    /\ result = "None"
    /\ before = <<>>

Next ==
    \/ \E origin \in Origins, proof \in Fingerprints : create_claim(origin, proof)
    \/ \E origin \in Origins, proof \in Fingerprints : revoke_claim(origin, proof)
    \/ \E origin \in Origins, proof \in Fingerprints, dest \in AccountId :
           transfer_claim(origin, proof, dest)
    \/ next_block

Spec == Init /\ [][Next]_vars

\* The proof "abc" of the scenario in the specification (ProofLimit is 10).
Abc == <<97, 98, 99>>
ScenarioProofs == {Abc}

\* The same dispatchables, called with the proof of the scenario.
ScenarioNext ==
    \/ \E origin \in Origins, proof \in ScenarioProofs : create_claim(origin, proof)
    \/ \E origin \in Origins, proof \in ScenarioProofs : revoke_claim(origin, proof)
    \/ \E origin \in Origins, proof \in ScenarioProofs, dest \in AccountId :
           transfer_claim(origin, proof, dest)
    \/ next_block

SpecScenario == Init /\ [][ScenarioNext]_vars

\* ------------------------------------------------------------ properties
\* A claim is present in Proofs.
Present(map, f) == f \in DOMAIN map
\* The owner and the block number stored for a present claim.
OwnerOf(map, f) == map[f][1]
RegisteredAt(map, f) == map[f][2]

\* The step is the dispatch of the call recorded in call'.
IsCreate == call'[1] = "create_claim" /\ create_claim(call'[2], call'[3])
IsRevoke == call'[1] = "revoke_claim" /\ revoke_claim(call'[2], call'[3])
IsTransfer ==
    call'[1] = "transfer_claim" /\ transfer_claim(call'[2], call'[3], call'[4])
\* The arguments of that call.
Caller == call'[2]
Proof == call'[3]
Dest == call'[4]

\* C1: for every signed caller and every proof longer than ProofLimit,
\* create_claim returns ProofIsTooLong (the spec's ProofTooLong), Proofs is
\* left exactly as it was and no event is deposited.
C1_TooLongRejected ==
    [][(IsCreate /\ Caller \in AccountId /\ Len(Proof) > ProofLimit)
          => /\ result' = ProofIsTooLong
             /\ proofs' = proofs
             /\ events' = events]_vars

\* A too long proof was submitted against a store that holds claims.
C1_Witness ==
    /\ call[1] = "create_claim"
    /\ call[2] \in AccountId
    /\ Len(call[3]) > ProofLimit
    /\ result = ProofIsTooLong
    /\ DOMAIN proofs # {}

\* C2: create_claim on a proof that is already present returns
\* ProofAlreadyExist (the spec's ProofAlreadyExists) for every signed caller,
\* the owner included, and Proofs is unchanged: the record keeps its owner
\* and its block number even when the block number has grown since.
C2_AlreadyExistsRejected ==
    [][(IsCreate /\ Caller \in AccountId /\ Present(proofs, Proof))
          => /\ result' = ProofAlreadyExist
             /\ proofs' = proofs
             /\ Present(proofs', Proof)
             /\ OwnerOf(proofs', Proof) = OwnerOf(proofs, Proof)
             /\ RegisteredAt(proofs', Proof) = RegisteredAt(proofs, Proof)]_vars

\* The owner claimed its own proof again in a later block.
C2_Witness ==
    /\ call[1] = "create_claim"
    /\ result = ProofAlreadyExist
    /\ Present(proofs, call[3])
    /\ OwnerOf(proofs, call[3]) = call[2]
    /\ RegisteredAt(proofs, call[3]) < block_number

\* C3: revoke_claim and transfer_claim on a proof that is absent return
\* ClaimNotExist for every signed caller and every dest; the proof stays
\* absent, Proofs is unchanged and no event is deposited.
C3_AbsentRejected ==
    [][((IsRevoke \/ IsTransfer) /\ Caller \in AccountId /\ ~Present(proofs, Proof))
          => /\ result' = ClaimNotExist
             /\ ~Present(proofs', Proof)
             /\ proofs' = proofs
             /\ events' = events]_vars

\* A revoke of an absent proof was rejected while other claims are stored.
C3_Witness ==
    /\ call[1] = "revoke_claim"
    /\ call[2] \in AccountId
    /\ ~Present(proofs, call[3])
    /\ result = ClaimNotExist
    /\ DOMAIN proofs # {}

\* C4: revoke_claim and transfer_claim on a present proof by a signed caller
\* that is not its owner return NotProofOwner, whatever dest is, and leave
\* Proofs unchanged: same owner, same block number.
C4_NonOwnerRejected ==
    [][((IsRevoke \/ IsTransfer) /\ Caller \in AccountId
            /\ Present(proofs, Proof) /\ OwnerOf(proofs, Proof) # Caller)
          => /\ result' = NotProofOwner
             /\ proofs' = proofs
             /\ Present(proofs', Proof)
             /\ OwnerOf(proofs', Proof) = OwnerOf(proofs, Proof)
             /\ RegisteredAt(proofs', Proof) = RegisteredAt(proofs, Proof)
             /\ events' = events]_vars

\* A caller that is not the owner tried to transfer the claim to itself.
C4_Witness ==
    /\ call[1] = "transfer_claim"
    /\ call[2] \in AccountId
    /\ Present(proofs, call[3])
    /\ OwnerOf(proofs, call[3]) # call[2]
    /\ call[4] = call[2]
    /\ result = NotProofOwner

\* The last dispatched call was a transfer_claim of Proof by Caller that
\* returned Ok, and the step is a transfer_claim of the same proof by the
\* same caller.
TransferAgainByFormerOwner ==
    /\ call[1] = "transfer_claim"
    /\ result = Ok
    /\ IsTransfer
    /\ Caller = call[2]
    /\ Proof = call[3]

\* transfer_claim by the owner returns Ok and stores <<dest, block number>>.
TransferByOwnerSucceeds ==
    (IsTransfer /\ Caller \in AccountId
        /\ Present(proofs, Proof) /\ OwnerOf(proofs, Proof) = Caller)
      => /\ result' = Ok
         /\ Present(proofs', Proof)
         /\ OwnerOf(proofs', Proof) = Dest
         /\ RegisteredAt(proofs', Proof) = block_number

\* C5 as stated: transfer_claim by the owner of a proof returns Ok, sets the
\* stored owner to dest and the stored block number to the current one, for
\* all owner and dest; a following transfer_claim of the proof by the
\* original owner returns NotProofOwner.
C5_Original ==
    [][/\ TransferByOwnerSucceeds
       /\ TransferAgainByFormerOwner => result' = NotProofOwner]_vars

\* C5 amended: the following transfer_claim by the original owner returns
\* NotProofOwner when dest was another identity than the owner; after a
\* transfer to itself the owner is still the owner.
C5_TransferUpdatesOwner ==
    [][/\ TransferByOwnerSucceeds
       /\ (TransferAgainByFormerOwner /\ call[4] # call[2])
             => (result' = NotProofOwner /\ proofs' = proofs)]_vars

\* The original owner transferred the claim to another identity in a block
\* later than the one of the claim, then tried to transfer it again.
C5_Witness ==
    /\ call[1] = "transfer_claim"
    /\ result = NotProofOwner
    /\ events # <<>>
    /\ events[Len(events)][1] = "ClaimTransfered"
    /\ events[Len(events)][2] = call[2]
    /\ events[Len(events)][3] = call[3]
    /\ events[Len(events)][4] # call[2]
    /\ Present(proofs, call[3])
    /\ OwnerOf(proofs, call[3]) = events[Len(events)][4]
    /\ RegisteredAt(proofs, call[3]) = block_number
    /\ block_number > 0

\* The event deposited last and the one before it.
LastEvent == events[Len(events)]
EventBeforeLast == events[Len(events) - 1]

\* C6: from a state where a proof of at most ProofLimit bytes is absent,
\* create_claim by a caller returns Ok; revoke_claim by the same caller as the
\* next call returns Ok and leaves the proof absent and Proofs equal to what
\* it was before the create_claim; a create_claim of the proof by any identity
\* as the next call returns Ok and records that identity as the owner.
C6_CreateRevokeRoundTrip ==
    [][/\ (IsCreate /\ Caller \in AccountId
              /\ ~Present(proofs, Proof) /\ Len(Proof) <= ProofLimit)
            => result' = Ok
       /\ (call[1] = "create_claim" /\ result = Ok
              /\ IsRevoke /\ Caller = call[2] /\ Proof = call[3])
            => /\ result' = Ok
               /\ ~Present(proofs', Proof)
               /\ proofs' = before
       /\ (call[1] = "revoke_claim" /\ result = Ok
              /\ Len(events) >= 2
              /\ EventBeforeLast = <<"ClaimCreated", call[2], call[3]>>
              /\ IsCreate /\ Caller \in AccountId /\ Proof = call[3])
            => /\ result' = Ok
               /\ Present(proofs', Proof)
               /\ OwnerOf(proofs', Proof) = Caller]_vars

\* A proof was claimed and revoked by one identity in a store that held
\* another claim, the store is back to what it was, and a third call was made.
C6_RevokedWitness ==
    /\ call[1] = "revoke_claim"
    /\ result = Ok
    /\ Len(events) >= 2
    /\ EventBeforeLast = <<"ClaimCreated", call[2], call[3]>>
    /\ LastEvent = <<"ClaimRevoked", call[2], call[3]>>
    /\ ~Present(proofs, call[3])
    /\ DOMAIN proofs # {}

\* A proof was claimed, revoked by its claimant, then claimed by another
\* identity, which owns it now.
C6_Witness ==
    /\ call[1] = "create_claim"
    /\ result = Ok
    /\ Len(events) >= 3
    /\ LastEvent = <<"ClaimCreated", call[2], call[3]>>
    /\ EventBeforeLast[1] = "ClaimRevoked"
    /\ EventBeforeLast[3] = call[3]
    /\ EventBeforeLast[2] # call[2]
    /\ events[Len(events) - 2] = <<"ClaimCreated", EventBeforeLast[2], call[3]>>
    /\ OwnerOf(proofs, call[3]) = call[2]

\* C7: create_claim by a signed caller returns Ok exactly when the proof has
\* at most ProofLimit bytes (exactly ProofLimit and none included) and is
\* absent; then Proofs maps the proof to <<caller, block number>> and exactly
\* one event, ClaimCreated(caller, proof), is deposited.
C7_CreateSucceedsExactlyWhen ==
    [][(IsCreate /\ Caller \in AccountId)
          => /\ (result' = Ok)
                   <=> (Len(Proof) <= ProofLimit /\ ~Present(proofs, Proof))
             /\ (result' = Ok)
                   => /\ Present(proofs', Proof)
                      /\ proofs'[Proof] = <<Caller, block_number>>
                      /\ events' = Append(events, <<"ClaimCreated", Caller, Proof>>)]_vars

\* A proof of exactly ProofLimit bytes was claimed while the empty proof was
\* claimed already.
C7_Witness ==
    /\ call[1] = "create_claim"
    /\ result = Ok
    /\ Len(call[3]) = ProofLimit
    /\ Present(proofs, call[3])
    /\ proofs[call[3]] = <<call[2], block_number>>
    /\ Present(proofs, <<>>)
    /\ LastEvent = <<"ClaimCreated", call[2], call[3]>>

\* C8: revoke_claim by a signed caller returns Ok exactly when the proof is
\* present and its stored owner is the caller; then the proof is absent and
\* exactly one event, ClaimRevoked(caller, proof), is deposited. The owner can
\* revoke whatever calls made it the owner.
C8_RevokeSucceedsExactlyWhen ==
    [][(IsRevoke /\ Caller \in AccountId)
          => /\ (result' = Ok)
                   <=> (Present(proofs, Proof) /\ OwnerOf(proofs, Proof) = Caller)
             /\ (result' = Ok)
                   => /\ ~Present(proofs', Proof)
                      /\ events' = Append(events, <<"ClaimRevoked", Caller, Proof>>)]_vars

\* An identity that received the claim by a transfer from another one
\* revoked it.
C8_Witness ==
    /\ call[1] = "revoke_claim"
    /\ result = Ok
    /\ Len(events) >= 2
    /\ LastEvent = <<"ClaimRevoked", call[2], call[3]>>
    /\ EventBeforeLast[1] = "ClaimTransfered"
    /\ EventBeforeLast[3] = call[3]
    /\ EventBeforeLast[4] = call[2]
    /\ EventBeforeLast[2] # call[2]
    /\ ~Present(proofs, call[3])

\* The step dispatches a call.
IsDispatch == IsCreate \/ IsRevoke \/ IsTransfer

\* The event that belongs to a call.
EventOfCall(c) ==
    CASE c[1] = "create_claim" -> <<"ClaimCreated", c[2], c[3]>>
      [] c[1] = "revoke_claim" -> <<"ClaimRevoked", c[2], c[3]>>
      [] c[1] = "transfer_claim" -> <<"ClaimTransfered", c[2], c[3], c[4]>>

\* The store mutation that belongs to an event deposited in block now.
MutationOfEvent(e, map, now) ==
    CASE e[1] = "ClaimCreated" ->
             [k \in DOMAIN map \cup {e[3]} |-> IF k = e[3] THEN <<e[2], now>> ELSE map[k]]
      [] e[1] = "ClaimRevoked" ->
             [k \in DOMAIN map \ {e[3]} |-> map[k]]
      [] e[1] = "ClaimTransfered" ->
             [k \in DOMAIN map \cup {e[3]} |-> IF k = e[3] THEN <<e[4], now>> ELSE map[k]]

\* C9: every call is all or nothing. A dispatch either returns Ok, applies the
\* store mutation of the operation and deposits exactly one event, the one of
\* the call, or returns an error and leaves Proofs and the events as they
\* were. No step changes Proofs without depositing the event of the change,
\* and no step deposits an event without applying its mutation.
C9_AllOrNothing ==
    [][/\ IsDispatch
            => \/ /\ result' = Ok
                  /\ events' = Append(events, EventOfCall(call'))
                  /\ proofs' = MutationOfEvent(EventOfCall(call'), proofs, block_number)
               \/ /\ result' \in Errors
                  /\ proofs' = proofs
                  /\ events' = events
       /\ proofs' # proofs
            => /\ IsDispatch
               /\ result' = Ok
               /\ Len(events') = Len(events) + 1
       /\ events' # events
            => /\ IsDispatch
               /\ result' = Ok
               /\ Len(events') = Len(events) + 1
               /\ SubSeq(events', 1, Len(events)) = events
               /\ proofs' = MutationOfEvent(events'[Len(events')], proofs, block_number)]_vars

\* A revoke_claim returned an error after a transfer_claim that returned Ok:
\* the store and the events are those the transfer left.
C9_Witness ==
    /\ call[1] = "revoke_claim"
    /\ result = NotProofOwner
    /\ before = proofs
    /\ Len(events) >= 2
    /\ LastEvent[1] = "ClaimTransfered"
    /\ Present(proofs, LastEvent[3])
    /\ OwnerOf(proofs, LastEvent[3]) = LastEvent[4]

\* C10: the life of each proof. It goes from absent to present only by a
\* create_claim of it that returns Ok, from present to absent only by a
\* revoke_claim of it that returns Ok, and its record is replaced only by a
\* transfer_claim of it that returns Ok. transfer_claim neither stores a
\* record for an absent proof nor deletes one; create_claim does not
\* overwrite a present one.
C10_Lifecycle ==
    [][\A f \in Fingerprints \cup DOMAIN proofs \cup DOMAIN proofs' :
          /\ (~Present(proofs, f) /\ Present(proofs', f))
                => (IsCreate /\ Proof = f /\ result' = Ok)
          /\ (Present(proofs, f) /\ ~Present(proofs', f))
                => (IsRevoke /\ Proof = f /\ result' = Ok)
          /\ (Present(proofs, f) /\ Present(proofs', f) /\ proofs'[f] # proofs[f])
                => (IsTransfer /\ Proof = f /\ result' = Ok)
          /\ (IsTransfer /\ Proof = f)
                => (Present(proofs', f) <=> Present(proofs, f))
          /\ (IsCreate /\ Proof = f /\ Present(proofs, f))
                => (Present(proofs', f) /\ proofs'[f] = proofs[f])]_vars

\* A proof went through its whole life: claimed, transferred to another
\* identity, revoked by that identity.
C10_Witness ==
    /\ Len(events) >= 3
    /\ LastEvent[1] = "ClaimRevoked"
    /\ EventBeforeLast[1] = "ClaimTransfered"
    /\ EventBeforeLast[3] = LastEvent[3]
    /\ EventBeforeLast[4] = LastEvent[2]
    /\ EventBeforeLast[2] # EventBeforeLast[4]
    /\ events[Len(events) - 2] = <<"ClaimCreated", EventBeforeLast[2], LastEvent[3]>>
    /\ ~Present(proofs, LastEvent[3])

\* The proofs that Proofs holds before or after the step, and those submitted.
ProofsOfStep == Fingerprints \cup DOMAIN proofs \cup DOMAIN proofs'

\* Every proof present before and after the step has the same owner.
OwnersKept ==
    \A g \in DOMAIN proofs \cap DOMAIN proofs' :
        OwnerOf(proofs', g) = OwnerOf(proofs, g)

\* C11: the owner of a proof never changes silently. A step across which a
\* present proof has another owner is a transfer_claim of it that returns Ok,
\* called by the owner before the step, with the owner after the step as
\* dest. A proof that becomes present is owned by the caller of the
\* create_claim that stored it. A step of the block number, a call that
\* returns an error and a revoke_claim change no owner.
C11_OwnerChangesOnlyByCall ==
    [][/\ \A f \in ProofsOfStep :
             /\ (Present(proofs, f) /\ Present(proofs', f)
                    /\ OwnerOf(proofs', f) # OwnerOf(proofs, f))
                  => /\ IsTransfer
                     /\ result' = Ok
                     /\ Proof = f
                     /\ Caller = OwnerOf(proofs, f)
                     /\ Dest = OwnerOf(proofs', f)
             /\ (~Present(proofs, f) /\ Present(proofs', f))
                  => /\ IsCreate
                     /\ result' = Ok
                     /\ Proof = f
                     /\ OwnerOf(proofs', f) = Caller
       /\ (block_number' # block_number \/ (IsDispatch /\ result' \in Errors))
             => (DOMAIN proofs' = DOMAIN proofs /\ OwnersKept)
       /\ IsRevoke => OwnersKept]_vars

\* The owner of a claim transferred it to another identity, which owns it
\* now, while a second claim kept its owner.
C11_Witness ==
    /\ call[1] = "transfer_claim"
    /\ result = Ok
    /\ call[4] # call[2]
    /\ Present(before, call[3])
    /\ OwnerOf(before, call[3]) = call[2]
    /\ OwnerOf(proofs, call[3]) = call[4]
    /\ \E g \in DOMAIN proofs : g # call[3] /\ OwnerOf(proofs, g) = OwnerOf(before, g)

\* The events after the first and after the third call of the scenario.
ScenarioCreated == << <<"ClaimCreated", "A", Abc>> >>
ScenarioTransferred ==
    << <<"ClaimCreated", "A", Abc>>, <<"ClaimTransfered", "A", Abc, "C">> >>

\* C12: the scenario with ProofLimit = 10 and the identities A, B, C on
\* empty storage. create_claim(A, "abc") returns Ok and A is the owner; then
\* create_claim(B, "abc") returns ProofAlreadyExist; then
\* transfer_claim(A, "abc", C) returns Ok and C is the owner; then
\* revoke_claim(A, "abc") returns NotProofOwner; then revoke_claim(C, "abc")
\* returns Ok and "abc" is absent.
C12_Scenario ==
    [][/\ ProofLimit = 10
       /\ (events = <<>> /\ proofs = <<>> /\ call = <<"none">>
              /\ IsCreate /\ call' = <<"create_claim", "A", Abc>>)
            => /\ result' = Ok
               /\ Present(proofs', Abc)
               /\ OwnerOf(proofs', Abc) = "A"
       /\ (events = ScenarioCreated
              /\ call = <<"create_claim", "A", Abc>> /\ result = Ok
              /\ IsCreate /\ call' = <<"create_claim", "B", Abc>>)
            => /\ result' = ProofAlreadyExist
               /\ OwnerOf(proofs', Abc) = "A"
       /\ (events = ScenarioCreated
              /\ call = <<"create_claim", "B", Abc>> /\ result = ProofAlreadyExist
              /\ IsTransfer /\ call' = <<"transfer_claim", "A", Abc, "C">>)
            => /\ result' = Ok
               /\ Present(proofs', Abc)
               /\ OwnerOf(proofs', Abc) = "C"
       /\ (events = ScenarioTransferred
              /\ call = <<"transfer_claim", "A", Abc, "C">> /\ result = Ok
              /\ IsRevoke /\ call' = <<"revoke_claim", "A", Abc>>)
            => /\ result' = NotProofOwner
               /\ OwnerOf(proofs', Abc) = "C"
       /\ (events = ScenarioTransferred
              /\ call = <<"revoke_claim", "A", Abc>> /\ result = NotProofOwner
              /\ IsRevoke /\ call' = <<"revoke_claim", "C", Abc>>)
            => /\ result' = Ok
               /\ ~Present(proofs', Abc)]_vars

\* The scenario has run to its end: "abc" was claimed by A, transferred to C
\* and revoked by C, and nothing else was deposited.
C12_Witness ==
    /\ events = Append(ScenarioTransferred, <<"ClaimRevoked", "C", Abc>>)
    /\ call = <<"revoke_claim", "C", Abc>>
    /\ result = Ok
    /\ ~Present(proofs, Abc)
    /\ Present(before, Abc)
    /\ OwnerOf(before, Abc) = "C"

\* C13: in every reachable state every proof present in Proofs has at most
\* ProofLimit bytes, so no proof is both too long and already claimed:
\* transfer_claim, which does not check the length, writes only keys that are
\* present.
C13_StoredWithinLimit ==
    /\ \A f \in DOMAIN proofs : Len(f) <= ProofLimit
    /\ \A f \in Fingerprints : ~(Len(f) > ProofLimit /\ Present(proofs, f))

\* A too long proof was refused while Proofs holds a proof of exactly
\* ProofLimit bytes whose record a transfer_claim wrote last.
C13_Witness ==
    /\ call[1] = "create_claim"
    /\ Len(call[3]) > ProofLimit
    /\ result = ProofIsTooLong
    /\ events # <<>>
    /\ LastEvent[1] = "ClaimTransfered"
    /\ Len(LastEvent[3]) = ProofLimit
    /\ Present(proofs, LastEvent[3])

\* C14: a call of create_claim, revoke_claim or transfer_claim with a proof f,
\* whatever it returns, leaves the record of every other proof as it was:
\* present or absent, owner and block number, also when the caller or dest
\* owns that other proof.
C14_OtherProofsUntouched ==
    [][IsDispatch
          => \A g \in ProofsOfStep \ {Proof} :
                /\ Present(proofs', g) <=> Present(proofs, g)
                /\ Present(proofs, g) => proofs'[g] = proofs[g]]_vars

\* The owner of two claims revoked one of them; the other is as it was.
C14_Witness ==
    /\ call[1] = "revoke_claim"
    /\ result = Ok
    /\ \E g \in DOMAIN proofs :
          /\ g # call[3]
          /\ OwnerOf(proofs, g) = call[2]
          /\ Present(before, g)
          /\ proofs[g] = before[g]

\* The positions below n of the events that name the proof f.
NamedBefore(f, n) == {i \in 1..(n - 1) : events[i][3] = f}
\* The greatest position of a non-empty set of positions.
Latest(positions) == CHOOSE i \in positions : \A j \in positions : j <= i
\* The owner an event establishes: the caller of ClaimCreated, the dest of
\* ClaimTransfered.
Establishes(e) == e[1] \in {"ClaimCreated", "ClaimTransfered"}
EstablishedOwner(e) == IF e[1] = "ClaimCreated" THEN e[2] ELSE e[4]

\* C15: the events determine Proofs. A proof is present exactly when the last
\* event that names it is ClaimCreated or ClaimTransfered (the spec's
\* ClaimTransferred), and its owner is then the caller of that ClaimCreated or
\* the dest of that ClaimTransfered; it is absent exactly when no event names
\* it or the last one is ClaimRevoked. The caller named in every ClaimRevoked
\* and ClaimTransfered is the owner that the preceding event of the proof
\* established.
C15_EventsDetermineStore ==
    /\ \A f \in Fingerprints \cup DOMAIN proofs :
          LET named == NamedBefore(f, Len(events) + 1) IN
          /\ Present(proofs, f)
                <=> (named # {} /\ Establishes(events[Latest(named)]))
          /\ Present(proofs, f)
                => OwnerOf(proofs, f) = EstablishedOwner(events[Latest(named)])
          /\ ~Present(proofs, f)
                <=> (named = {} \/ events[Latest(named)][1] = "ClaimRevoked")
    /\ \A i \in 1..Len(events) :
          events[i][1] \in {"ClaimRevoked", "ClaimTransfered"}
              => LET earlier == NamedBefore(events[i][3], i) IN
                 /\ earlier # {}
                 /\ Establishes(events[Latest(earlier)])
                 /\ EstablishedOwner(events[Latest(earlier)]) = events[i][2]

\* A claim was transferred to another identity, which owns it now and is
\* named last in the events, while a proof that no event names is absent.
C15_Witness ==
    /\ Len(events) >= 2
    /\ LastEvent[1] = "ClaimTransfered"
    /\ LastEvent[2] # LastEvent[4]
    /\ NamedBefore(LastEvent[3], Len(events)) # {}
    /\ Present(proofs, LastEvent[3])
    /\ OwnerOf(proofs, LastEvent[3]) = LastEvent[4]
    /\ \E g \in Fingerprints :
          /\ Len(g) <= ProofLimit
          /\ NamedBefore(g, Len(events) + 1) = {}
          /\ ~Present(proofs, g)

\* Every record was stored in a block that is not later than the current one.
RegisteredNotInFuture ==
    \A f \in DOMAIN proofs : RegisteredAt(proofs, f) <= block_number

\* C16: the block number never decreases; every stored record has a block
\* number not greater than the current one; the block number of a record
\* that stays present never decreases: it changes only in a transfer_claim of
\* that proof that returns Ok, where it becomes the current block number, and
\* is left alone by calls that return an error and by steps of the block
\* number.
C16_RegisteredAtMonotone ==
    [][/\ block_number' >= block_number
       /\ RegisteredNotInFuture
       /\ RegisteredNotInFuture'
       /\ \A f \in DOMAIN proofs \cap DOMAIN proofs' :
             /\ RegisteredAt(proofs', f) >= RegisteredAt(proofs, f)
             /\ RegisteredAt(proofs', f) # RegisteredAt(proofs, f)
                   => /\ IsTransfer
                      /\ result' = Ok
                      /\ Proof = f
                      /\ RegisteredAt(proofs', f) = block_number
       /\ (IsTransfer /\ result' = Ok)
             => RegisteredAt(proofs', Proof) = block_number
       /\ (block_number' # block_number \/ (IsDispatch /\ result' \in Errors))
             => \A f \in DOMAIN proofs :
                   /\ Present(proofs', f)
                   /\ RegisteredAt(proofs', f) = RegisteredAt(proofs, f)]_vars

\* A claim stored in an earlier block was transferred in the current block:
\* its record carries the current block number now.
C16_Witness ==
    /\ call[1] = "transfer_claim"
    /\ result = Ok
    /\ Present(before, call[3])
    /\ Present(proofs, call[3])
    /\ RegisteredAt(before, call[3]) < RegisteredAt(proofs, call[3])
    /\ RegisteredAt(proofs, call[3]) = block_number

\* C17: a transfer_claim of a proof by its owner to itself returns Ok, leaves
\* the owner as it is, stores the current block number and deposits
\* ClaimTransfered(o, f, o); a revoke_claim or transfer_claim of the proof by
\* the owner as the next call returns Ok.
C17_SelfTransfer ==
    [][/\ (IsTransfer /\ Caller \in AccountId /\ Dest = Caller
              /\ Present(proofs, Proof) /\ OwnerOf(proofs, Proof) = Caller)
            => /\ result' = Ok
               /\ Present(proofs', Proof)
               /\ OwnerOf(proofs', Proof) = Caller
               /\ RegisteredAt(proofs', Proof) = block_number
               /\ events' = Append(events, <<"ClaimTransfered", Caller, Proof, Caller>>)
       /\ (call[1] = "transfer_claim" /\ result = Ok /\ call[4] = call[2]
              /\ (IsRevoke \/ IsTransfer)
              /\ Caller = call[2] /\ Proof = call[3])
            => result' = Ok]_vars

\* An owner transferred its claim to itself in a block later than the one of
\* the claim, then revoked it.
C17_Witness ==
    /\ call[1] = "revoke_claim"
    /\ result = Ok
    /\ Len(events) >= 2
    /\ LastEvent = <<"ClaimRevoked", call[2], call[3]>>
    /\ EventBeforeLast = <<"ClaimTransfered", call[2], call[3], call[2]>>
    /\ Present(before, call[3])
    /\ RegisteredAt(before, call[3]) > 0
    /\ ~Present(proofs, call[3])

TypeOK ==
    /\ DOMAIN proofs \subseteq Fingerprints
    /\ \A k \in DOMAIN proofs : proofs[k] \in AccountId \X BlockNumber
    /\ Len(events) <= MaxEvents
    /\ block_number \in BlockNumber
    /\ result \in Errors \cup {Ok, "None"}
====
